---- MODULE Spec2Model ----
(***************************************************************************)
(* A model of gofasta's pkg/sam: the indel aggregation pipeline (Indels,   *)
(* getSamRecords, getIndels, populateInsMap/DelMap, writeInsMap/DelMap),   *)
(* the record expander (getOneLine), the consensus resolver               *)
(* (getNucFromSite, checkAndGetFlattenedSeq), the query partitioner        *)
(* (groupSamRecords), the boundary substitution (swapInGapsNs), and, each  *)
(* on its own, the indel extractor (getIndels) and an aggregator with its  *)
(* report writer.                                                          *)
(*                                                                         *)
(* Bytes are their ASCII codes.  Go channels: an unbuffered channel is a   *)
(* rendezvous (one action moves sender and receiver together), the         *)
(* buffered record queue cSR is a sequence bounded by its capacity.  A     *)
(* goroutine panic ends the whole process (crashed).                       *)
(***************************************************************************)
EXTENDS Integers, Sequences, FiniteSets, TLC

\* ------------------------------------------------------------------ bounds
MaxWorkers == 2      \* runtime.NumCPU() ranges over 1..MaxWorkers
MaxInput == 2        \* records (or read errors) in the pipeline's input
MaxThreshold == 2    \* threshold ranges over 1..MaxThreshold
MaxOps == 2          \* operators in a record given to getOneLine
MaxPos == 1          \* getOneLine: POS ranges over -1..MaxPos
MaxRefLen == 3       \* getOneLine: refLen ranges over 0..MaxRefLen
MaxBlock == 3        \* sequences in a block given to the consensus resolver
MaxStream == 4       \* records (or read errors) given to groupSamRecords
MaxSeqLen == 4       \* bytes in a sequence given to swapInGapsNs
MaxOccs == 3         \* occurrences given to one aggregator on its own

\* ------------------------------------------------------------------- bytes
Star == 42           \* '*'
Dash == 45           \* '-'
ChN == 78            \* 'N'
Nuc == [A |-> 65, C |-> 67, G |-> 71]   \* sample base calls

\* unicode.IsLetter on a single byte decoded by utf8.DecodeRune: ASCII
\* letters only (a byte >= 0x80 alone decodes to RuneError, not a letter).
IsLetter(b) == (b >= 65 /\ b <= 90) \/ (b >= 97 /\ b <= 122)

\* IsUnmappedFlag with a fault: the shift is by one bit
IsUnmappedFlagShiftOne(flags) == ((flags \div 2) % 2) = 1

\* the SAM flag test of getSamRecords: ((rec.Flags >> 2) & 1) == 1
IsUnmappedFlag(flags) == ((flags \div 4) % 2) = 1

\* Go's s[a:b] on a slice whose capacity is its length: in range or panic
SliceOK(seq, a, b) == 0 <= a /\ a <= b /\ b <= Len(seq)

Slice(seq, a, b) == SubSeq(seq, a + 1, b)

Gaps(n) == [i \in 1..n |-> Dash]

\* ------------------------------------------------- the operator interpreter
RecognizedOps == {"M", "I", "D", "N", "S", "H", "P", "=", "X"}

\* One call lambda_dict[operation](query_start, ref_start, length, seq) of
\* the table getCigarOperationMap builds.  A kind the table lacks gives a
\* nil function whose call panics; a slice out of range panics.
getCigarOperationMap(operation, query_start, ref_start, length, seq) ==
    IF operation \in {"M", "=", "X"}
    THEN IF SliceOK(seq, query_start, query_start + length)
         THEN [panic |-> FALSE, q |-> query_start + length, r |-> ref_start + length,
               ext |-> Slice(seq, query_start, query_start + length)]
         ELSE [panic |-> TRUE, q |-> query_start, r |-> ref_start, ext |-> <<>>]
    ELSE IF operation \in {"I", "S"}
    THEN [panic |-> FALSE, q |-> query_start + length, r |-> ref_start, ext |-> <<>>]
    ELSE IF operation \in {"D", "N"}
    THEN [panic |-> FALSE, q |-> query_start, r |-> ref_start + length, ext |-> Gaps(length)]
    ELSE IF operation \in {"H", "P"}
    THEN [panic |-> FALSE, q |-> query_start, r |-> ref_start, ext |-> <<>>]
    ELSE [panic |-> TRUE, q |-> query_start, r |-> ref_start, ext |-> <<>>]

\* The table getIndels uses (its file is not among the sources): the cursor
\* rules of the operator interpreter, the emitted bytes unused.
getCigarOperationMapNoInsertions(operation, query_start, ref_start, length, seq) ==
    IF operation \in {"M", "=", "X"}
    THEN [panic |-> ~SliceOK(seq, query_start, query_start + length),
          q |-> query_start + length, r |-> ref_start + length]
    ELSE IF operation \in {"I", "S"}
    THEN [panic |-> FALSE, q |-> query_start + length, r |-> ref_start]
    ELSE IF operation \in {"D", "N"}
    THEN [panic |-> FALSE, q |-> query_start, r |-> ref_start + length]
    ELSE IF operation \in {"H", "P"}
    THEN [panic |-> FALSE, q |-> query_start, r |-> ref_start]
    ELSE [panic |-> TRUE, q |-> query_start, r |-> ref_start]

\* -------------------------------------------------- the aggregation pipeline
VARIABLES
    nworkers,    \* runtime.NumCPU(): the worker count and cSR's capacity
    threshold,   \* Indels' threshold argument
    openOK,      \* whether os.Open(infile) succeeds
    input,       \* what s.Read() yields, in order, before io.EOF
    rd,          \* getSamRecords: [pc, pos]
    cSR,         \* the record queue's buffer
    cSRclosed,
    wk,          \* getIndels, per worker: [pc, idx, todo]
    wgInDels,    \* the WaitGroup's counter
    bar,         \* the barrier goroutine's pc
    cInsClosed, cDelClosed,
    ins,         \* populateInsMap: [pc, map]
    del,         \* populateDelMap: [pc, map]
    orch,        \* Indels: [pc, n, result]
    insFile, delFile,   \* the two reports on disk
    crashed,     \* a goroutine panicked
    pushed,      \* history: input positions pushed on cSR, in order
    taken,       \* history: <<input position, worker>> of every receive, in order
    emitted,     \* history: <<input position, kind>> of every occurrence sent
    errRecv      \* history: the errors received from cErr

pvars == <<nworkers, threshold, openOK, input, rd, cSR, cSRclosed, wk, wgInDels,
           bar, cInsClosed, cDelClosed, ins, del, orch, insFile, delFile,
           crashed, pushed, taken, emitted, errRecv>>

\* ------------------------------------- the sequential functions' harnesses
VARIABLES
    exRec,       \* getOneLine: the record given
    exRefLen,    \* getOneLine: refLen
    exOut,       \* getOneLine: what the call gave
    exAgain      \* getOneLine: what a second call on the same record gave

xvars == <<exRec, exRefLen, exOut, exAgain>>

VARIABLES
    cnBlock,     \* checkAndGetFlattenedSeq: the block given
    cnOut        \* checkAndGetFlattenedSeq: what the call gave

cvars == <<cnBlock, cnOut>>

VARIABLES
    gInput,      \* groupSamRecords: what s.Read() yields before io.EOF
    grp,         \* groupSamRecords: [pc, pos, samLineGroup, first, previous]
    gEmitted,    \* history: the blocks sent on chnl, in order
    gErrs,       \* history: the errors sent on cerr
    gDone        \* cdone has been sent

gvars == <<gInput, grp, gEmitted, gErrs, gDone>>

\* swapInGapsNs: the sequence passed in and what comes back
VARIABLES
    swSeq,
    swOut

svars == <<swSeq, swOut>>

\* getIndels on one record: the record and the events of the call
VARIABLES
    inRec,
    inOut

ivars == <<inRec, inOut>>

\* one aggregator and its writer on their own
VARIABLES
    foKind,      \* "I": populateInsMap and writeInsMap, "D": the Del pair
    foOccs,      \* the occurrences the queue delivers, in order
    foPos,       \* how many of them the aggregator has consumed
    foMap,       \* insMap / delMap
    foT,         \* the writer's threshold
    foFile       \* what the writer left on disk

fvars == <<foKind, foOccs, foPos, foMap, foT, foFile>>

hvars == <<svars, ivars, fvars>>

vars == <<pvars, xvars, cvars, gvars, hvars>>

Op(o, n) == [op |-> o, len |-> n]

\* What the reader can meet: records, and a line s.Read() fails on.
RIns == [kind |-> "rec", Name |-> "q1", Flags |-> 0, Pos |-> 0,
         Seq |-> <<Nuc.A, Nuc.C, Nuc.G>>, Cigar |-> <<Op("M", 1), Op("I", 1), Op("M", 1)>>]
RDel == [kind |-> "rec", Name |-> "q2", Flags |-> 16, Pos |-> 1,
         Seq |-> <<Nuc.A, Nuc.C>>, Cigar |-> <<Op("M", 1), Op("D", 2), Op("M", 1)>>]
RFlagged == [kind |-> "rec", Name |-> "q3", Flags |-> 4, Pos |-> -1,
             Seq |-> <<Nuc.A>>, Cigar |-> <<Op("I", 1)>>]
RNegStart == [kind |-> "rec", Name |-> "q4", Flags |-> 0, Pos |-> -1,
              Seq |-> <<Nuc.A, Nuc.C>>, Cigar |-> <<Op("I", 1), Op("M", 1)>>]
ROverrun == [kind |-> "rec", Name |-> "q5", Flags |-> 0, Pos |-> 0,
             Seq |-> <<Nuc.A>>, Cigar |-> <<Op("I", 2)>>]
ReadErr == [kind |-> "readErr"]

Items == {RIns, RDel, RFlagged, RNegStart, ROverrun, ReadErr}

Inputs == UNION {[1..n -> Items] : n \in 0..MaxInput}

\* getIndels' body for one record (lines 81-116) as the sequence of its
\* visible events, in order: the error sent on cErr for a negative POS (the
\* loop body then goes on: there is no continue after the send), one
\* occurrence sent per I and per D operator, and a panic where a slice or
\* the table lookup fails.
RECURSIVE getIndelsOps(_, _, _, _, _)
getIndelsOps(rec, idx, i, qstart, rstart) ==
    IF i > Len(rec.Cigar) THEN <<>>
    ELSE LET operation == rec.Cigar[i].op
             size == rec.Cigar[i].len
             adv == getCigarOperationMapNoInsertions(operation, qstart, rstart, size, rec.Seq)
         IN  IF operation = "I" /\ ~SliceOK(rec.Seq, qstart, qstart + size)
             THEN <<[kind |-> "panic", idx |-> idx]>>
             ELSE (IF operation = "I"
                   THEN <<[kind |-> "I", idx |-> idx, query |-> rec.Name, start |-> rstart,
                           key |-> Slice(rec.Seq, qstart, qstart + size)]>>
                   ELSE IF operation = "D"
                   THEN <<[kind |-> "D", idx |-> idx, query |-> rec.Name, start |-> rstart,
                           key |-> size]>>
                   ELSE <<>>)
                  \o (IF adv.panic THEN <<[kind |-> "panic", idx |-> idx]>>
                      ELSE getIndelsOps(rec, idx, i + 1, adv.q, adv.r))

\* getIndels with a fault: rstart starts at 0, not at POS
getIndelsFromZero(rec, idx) ==
    (IF rec.Pos < 0 THEN <<[kind |-> "err", idx |-> idx]>> ELSE <<>>)
    \o getIndelsOps(rec, idx, 1, 0, 0)

getIndels(rec, idx) ==
    (IF rec.Pos < 0 THEN <<[kind |-> "err", idx |-> idx]>> ELSE <<>>)
    \o getIndelsOps(rec, idx, 1, 0, rec.Pos)

\* populateMap with a fault: a repeated key's list is replaced, not appended to
populateMapOverwrite(m, occ) ==
    IF occ.start \in DOMAIN m
    THEN [m EXCEPT ![occ.start] = (occ.key :> <<occ.query>>) @@ @]
    ELSE (occ.start :> (occ.key :> <<occ.query>>)) @@ m

\* populateMap with a fault: a repeated key's new name goes to the front
populateMapPrepend(m, occ) ==
    IF occ.start \in DOMAIN m
    THEN IF occ.key \in DOMAIN m[occ.start]
         THEN [m EXCEPT ![occ.start] = [@ EXCEPT ![occ.key] = <<occ.query>> \o @]]
         ELSE [m EXCEPT ![occ.start] = (occ.key :> <<occ.query>>) @@ @]
    ELSE (occ.start :> (occ.key :> <<occ.query>>)) @@ m

\* populateInsMap / populateDelMap: one occurrence folded into the map
\* (start -> key -> names; key is the inserted sequence or the length).
populateMap(m, occ) ==
    IF occ.start \in DOMAIN m
    THEN IF occ.key \in DOMAIN m[occ.start]
         THEN [m EXCEPT ![occ.start] = [@ EXCEPT ![occ.key] = Append(@, occ.query)]]
         ELSE [m EXCEPT ![occ.start] = (occ.key :> <<occ.query>>) @@ @]
    ELSE (occ.start :> (occ.key :> <<occ.query>>)) @@ m

EmptyMap == [k \in {} |-> <<>>]

Workers == 1..nworkers

NoResult == [kind |-> "none", stage |-> "-", what |-> "-", idx |-> 0]
NilResult == [kind |-> "nil", stage |-> "-", what |-> "-", idx |-> 0]
Err(stage, what, idx) == [kind |-> "error", stage |-> stage, what |-> what, idx |-> idx]

NoFile == [st |-> "none", rows |-> <<>>]

\* where a worker goes with the events it still has to perform
WorkerAt(idx, todo) ==
    [pc |-> IF todo = <<>> THEN "recv"
            ELSE IF Head(todo).kind = "err" THEN "sendErr"
            ELSE IF Head(todo).kind = "panic" THEN "panic"
            ELSE "emit",
     idx |-> IF todo = <<>> THEN 0 ELSE idx,
     todo |-> todo]

PipelineInit ==
    /\ nworkers \in 1..MaxWorkers
    /\ threshold \in 1..MaxThreshold
    /\ \/ openOK = TRUE /\ input \in Inputs
       \/ openOK = FALSE /\ input = <<>>
    /\ rd = [pc |-> "open", pos |-> 0, what |-> "-"]
    /\ cSR = <<>>
    /\ cSRclosed = FALSE
    /\ wk = [w \in 1..nworkers |-> WorkerAt(0, <<>>)]
    /\ wgInDels = nworkers
    /\ bar = "wait"
    /\ cInsClosed = FALSE
    /\ cDelClosed = FALSE
    /\ ins = [pc |-> "recv", map |-> EmptyMap]
    /\ del = [pc |-> "recv", map |-> EmptyMap]
    /\ orch = [pc |-> "readDone", n |-> 1, result |-> NoResult]
    /\ insFile = NoFile
    /\ delFile = NoFile
    /\ crashed = FALSE
    /\ pushed = <<>>
    /\ taken = <<>>
    /\ emitted = {}
    /\ errRecv = <<>>

Running == ~crashed

\* ------------------------------------------------------------ getSamRecords
\* os.Open, then biogosam.NewReader
ReaderOpen ==
    /\ Running /\ rd.pc = "open"
    /\ rd' = IF openOK THEN [rd EXCEPT !.pc = "read"]
             ELSE [pc |-> "sendErr", pos |-> 0, what |-> "open"]
    /\ UNCHANGED <<nworkers, threshold, openOK, input, cSR, cSRclosed, wk, wgInDels,
                   bar, cInsClosed, cDelClosed, ins, del, orch, insFile, delFile,
                   crashed, pushed, taken, emitted, errRecv>>
    /\ UNCHANGED <<xvars, cvars, gvars, hvars>>

\* s.Read() and the branch on its result
ReaderRead ==
    /\ Running /\ rd.pc = "read"
    /\ IF rd.pos = Len(input)
       THEN rd' = [pc |-> "signal", pos |-> rd.pos, what |-> "-"]
       ELSE LET item == input[rd.pos + 1] IN
            rd' = IF item.kind = "readErr"
                  THEN [pc |-> "sendErr", pos |-> rd.pos + 1, what |-> "read"]
                  ELSE IF IsUnmappedFlag(item.Flags)
                  THEN [pc |-> "read", pos |-> rd.pos + 1, what |-> "-"]
                  ELSE [pc |-> "push", pos |-> rd.pos + 1, what |-> "-"]
    /\ UNCHANGED <<nworkers, threshold, openOK, input, cSR, cSRclosed, wk, wgInDels,
                   bar, cInsClosed, cDelClosed, ins, del, orch, insFile, delFile,
                   crashed, pushed, taken, emitted, errRecv>>
    /\ UNCHANGED <<xvars, cvars, gvars, hvars>>

\* ReaderPush with a fault: the send does not wait for room in the buffer
ReaderPushUnbounded ==
    /\ Running /\ rd.pc = "push"
    /\ IF cSRclosed
       THEN crashed' = TRUE /\ UNCHANGED <<cSR, pushed, rd>>
       ELSE /\ cSR' = Append(cSR, [rec |-> input[rd.pos], idx |-> rd.pos])
            /\ pushed' = Append(pushed, rd.pos)
            /\ rd' = [pc |-> "read", pos |-> rd.pos, what |-> "-"]
            /\ UNCHANGED crashed
    /\ UNCHANGED <<nworkers, threshold, openOK, input, cSRclosed, wk, wgInDels,
                   bar, cInsClosed, cDelClosed, ins, del, orch, insFile, delFile,
                   taken, emitted, errRecv>>
    /\ UNCHANGED <<xvars, cvars, gvars, hvars>>

\* chnl<- *rec: blocks while the buffer is full; panics on a closed channel
ReaderPush ==
    /\ Running /\ rd.pc = "push"
    /\ cSRclosed \/ Len(cSR) < nworkers
    /\ IF cSRclosed
       THEN crashed' = TRUE /\ UNCHANGED <<cSR, pushed, rd>>
       ELSE /\ cSR' = Append(cSR, [rec |-> input[rd.pos], idx |-> rd.pos])
            /\ pushed' = Append(pushed, rd.pos)
            /\ rd' = [pc |-> "read", pos |-> rd.pos, what |-> "-"]
            /\ UNCHANGED crashed
    /\ UNCHANGED <<nworkers, threshold, openOK, input, cSRclosed, wk, wgInDels,
                   bar, cInsClosed, cDelClosed, ins, del, orch, insFile, delFile,
                   taken, emitted, errRecv>>
    /\ UNCHANGED <<xvars, cvars, gvars, hvars>>

\* ---------------------------------------------------------------- getIndels
\* the range loop receives a record; the body runs up to its first send
WorkerRecv(w) ==
    /\ Running /\ w \in Workers /\ wk[w].pc = "recv"
    /\ cSR # <<>>
    /\ wk' = [wk EXCEPT ![w] = WorkerAt(Head(cSR).idx, getIndels(Head(cSR).rec, Head(cSR).idx))]
    /\ cSR' = Tail(cSR)
    /\ taken' = Append(taken, <<Head(cSR).idx, w>>)
    /\ UNCHANGED <<nworkers, threshold, openOK, input, rd, cSRclosed, wgInDels,
                   bar, cInsClosed, cDelClosed, ins, del, orch, insFile, delFile,
                   crashed, pushed, emitted, errRecv>>
    /\ UNCHANGED <<xvars, cvars, gvars, hvars>>

\* the range loop ends on the closed, drained queue; then wgInDels.Done()
WorkerExit(w) ==
    /\ Running /\ w \in Workers /\ wk[w].pc = "recv"
    /\ cSR = <<>> /\ cSRclosed
    /\ wk' = [wk EXCEPT ![w] = [pc |-> "exited", idx |-> 0, todo |-> <<>>]]
    /\ wgInDels' = wgInDels - 1
    /\ UNCHANGED <<nworkers, threshold, openOK, input, rd, cSR, cSRclosed,
                   bar, cInsClosed, cDelClosed, ins, del, orch, insFile, delFile,
                   crashed, pushed, taken, emitted, errRecv>>
    /\ UNCHANGED <<xvars, cvars, gvars, hvars>>

\* cIns<- ins, received by populateInsMap's range loop
WorkerSendIns(w) ==
    /\ Running /\ w \in Workers /\ wk[w].pc = "emit"
    /\ Head(wk[w].todo).kind = "I"
    /\ cInsClosed \/ ins.pc = "recv"
    /\ IF cInsClosed
       THEN crashed' = TRUE /\ UNCHANGED <<wk, ins, emitted>>
       ELSE /\ ins' = [ins EXCEPT !.map = populateMap(@, Head(wk[w].todo))]
            /\ wk' = [wk EXCEPT ![w] = WorkerAt(wk[w].idx, Tail(wk[w].todo))]
            /\ emitted' = emitted \cup {<<wk[w].idx, "I">>}
            /\ UNCHANGED crashed
    /\ UNCHANGED <<nworkers, threshold, openOK, input, rd, cSR, cSRclosed, wgInDels,
                   bar, cInsClosed, cDelClosed, del, orch, insFile, delFile,
                   pushed, taken, errRecv>>
    /\ UNCHANGED <<xvars, cvars, gvars, hvars>>

\* cDel<- del, received by populateDelMap's range loop
WorkerSendDel(w) ==
    /\ Running /\ w \in Workers /\ wk[w].pc = "emit"
    /\ Head(wk[w].todo).kind = "D"
    /\ cDelClosed \/ del.pc = "recv"
    /\ IF cDelClosed
       THEN crashed' = TRUE /\ UNCHANGED <<wk, del, emitted>>
       ELSE /\ del' = [del EXCEPT !.map = populateMap(@, Head(wk[w].todo))]
            /\ wk' = [wk EXCEPT ![w] = WorkerAt(wk[w].idx, Tail(wk[w].todo))]
            /\ emitted' = emitted \cup {<<wk[w].idx, "D">>}
            /\ UNCHANGED crashed
    /\ UNCHANGED <<nworkers, threshold, openOK, input, rd, cSR, cSRclosed, wgInDels,
                   bar, cInsClosed, cDelClosed, ins, orch, insFile, delFile,
                   pushed, taken, errRecv>>
    /\ UNCHANGED <<xvars, cvars, gvars, hvars>>

\* a slice out of range, or a call through the table's nil entry
WorkerPanic(w) ==
    /\ Running /\ w \in Workers /\ wk[w].pc = "panic"
    /\ crashed' = TRUE
    /\ UNCHANGED <<nworkers, threshold, openOK, input, rd, cSR, cSRclosed, wk, wgInDels,
                   bar, cInsClosed, cDelClosed, ins, del, orch, insFile, delFile,
                   pushed, taken, emitted, errRecv>>
    /\ UNCHANGED <<xvars, cvars, gvars, hvars>>

\* ---------------------------------------------- populateInsMap / DelMap
\* the range loop ends on the closed channel
InsDrained ==
    /\ Running /\ ins.pc = "recv" /\ cInsClosed
    /\ ins' = [ins EXCEPT !.pc = "sendMap"]
    /\ UNCHANGED <<nworkers, threshold, openOK, input, rd, cSR, cSRclosed, wk, wgInDels,
                   bar, cInsClosed, cDelClosed, del, orch, insFile, delFile,
                   crashed, pushed, taken, emitted, errRecv>>
    /\ UNCHANGED <<xvars, cvars, gvars, hvars>>

DelDrained ==
    /\ Running /\ del.pc = "recv" /\ cDelClosed
    /\ del' = [del EXCEPT !.pc = "sendMap"]
    /\ UNCHANGED <<nworkers, threshold, openOK, input, rd, cSR, cSRclosed, wk, wgInDels,
                   bar, cInsClosed, cDelClosed, ins, orch, insFile, delFile,
                   crashed, pushed, taken, emitted, errRecv>>
    /\ UNCHANGED <<xvars, cvars, gvars, hvars>>

\* -------------------------------------------------- the barrier goroutine
\* WaitReturns with a fault: the barrier does not wait for the last worker
WaitReturnsEarly == wgInDels <= 1

\* wgInDels.Wait() returns once the counter is zero
WaitReturns == wgInDels = 0

BarrierWait ==
    /\ Running /\ bar = "wait" /\ WaitReturns
    /\ bar' = "send"
    /\ UNCHANGED <<nworkers, threshold, openOK, input, rd, cSR, cSRclosed, wk, wgInDels,
                   cInsClosed, cDelClosed, ins, del, orch, insFile, delFile,
                   crashed, pushed, taken, emitted, errRecv>>
    /\ UNCHANGED <<xvars, cvars, gvars, hvars>>

\* ------------------------------------------------------------------- Indels
Selecting == orch.pc \in {"readDone", "inDelsDone", "maps"}

\* OrchRecvErrReader with a fault: the occurrence queues are closed on the
\* way out
OrchRecvErrReaderCancelling ==
    /\ Running /\ Selecting /\ rd.pc = "sendErr"
    /\ orch' = [orch EXCEPT !.pc = "returned", !.result = Err("reader", rd.what, rd.pos)]
    /\ errRecv' = Append(errRecv, Err("reader", rd.what, rd.pos))
    /\ rd' = IF rd.what = "open" THEN [rd EXCEPT !.what = "newReader"]
             ELSE [rd EXCEPT !.pc = "read", !.what = "-"]
    /\ crashed' = (rd.what = "newReader")
    /\ cInsClosed' = TRUE /\ cDelClosed' = TRUE
    /\ UNCHANGED <<nworkers, threshold, openOK, input, cSR, cSRclosed, wk, wgInDels,
                   bar, ins, del, insFile, delFile,
                   pushed, taken, emitted>>
    /\ UNCHANGED <<xvars, cvars, gvars, hvars>>

\* case err := <-cErr: return err      (the sender is getSamRecords)
\* After the send the reader goes on, there being no return: past a failed
\* os.Open to NewReader on the nil file, whose reads fail (a second error to
\* send), past a failed NewReader to s.Read() on a nil reader (a panic), past
\* a failed s.Read() to the next s.Read().
OrchRecvErrReader ==
    /\ Running /\ Selecting /\ rd.pc = "sendErr"
    /\ orch' = [orch EXCEPT !.pc = "returned", !.result = Err("reader", rd.what, rd.pos)]
    /\ errRecv' = Append(errRecv, Err("reader", rd.what, rd.pos))
    /\ rd' = IF rd.what = "open" THEN [rd EXCEPT !.what = "newReader"]
             ELSE [rd EXCEPT !.pc = "read", !.what = "-"]
    /\ crashed' = (rd.what = "newReader")
    /\ UNCHANGED <<nworkers, threshold, openOK, input, cSR, cSRclosed, wk, wgInDels,
                   bar, cInsClosed, cDelClosed, ins, del, insFile, delFile,
                   pushed, taken, emitted>>
    /\ UNCHANGED <<xvars, cvars, gvars, hvars>>

\* case err := <-cErr: return err      (the sender is a getIndels worker)
OrchRecvErrWorker(w) ==
    /\ Running /\ Selecting /\ w \in Workers /\ wk[w].pc = "sendErr"
    /\ orch' = [orch EXCEPT !.pc = "returned",
                            !.result = Err("worker", "unmapped read", wk[w].idx)]
    /\ errRecv' = Append(errRecv, Err("worker", "unmapped read", wk[w].idx))
    /\ wk' = [wk EXCEPT ![w] = WorkerAt(wk[w].idx, Tail(wk[w].todo))]
    /\ UNCHANGED <<nworkers, threshold, openOK, input, rd, cSR, cSRclosed, wgInDels,
                   bar, cInsClosed, cDelClosed, ins, del, insFile, delFile,
                   crashed, pushed, taken, emitted>>
    /\ UNCHANGED <<xvars, cvars, gvars, hvars>>

\* case <-cReadDone: close(cSR); n--
OrchReadDone ==
    /\ Running /\ orch.pc = "readDone" /\ rd.pc = "signal"
    /\ rd' = [rd EXCEPT !.pc = "done"]
    /\ cSRclosed' = TRUE
    /\ crashed' = cSRclosed
    /\ orch' = [orch EXCEPT !.pc = "inDelsDone", !.n = 1]
    /\ UNCHANGED <<nworkers, threshold, openOK, input, cSR, wk, wgInDels,
                   bar, cInsClosed, cDelClosed, ins, del, insFile, delFile,
                   pushed, taken, emitted, errRecv>>
    /\ UNCHANGED <<xvars, cvars, gvars, hvars>>

\* OrchInDelsDone with a fault: the occurrence queues are closed without
\* the barrier's signal
OrchInDelsDoneUnsignalled ==
    /\ Running /\ orch.pc = "inDelsDone"
    /\ bar' = IF bar = "send" THEN "done" ELSE bar
    /\ cInsClosed' = TRUE
    /\ cDelClosed' = TRUE
    /\ crashed' = (cInsClosed \/ cDelClosed)
    /\ orch' = [orch EXCEPT !.pc = "maps", !.n = 2]
    /\ UNCHANGED <<nworkers, threshold, openOK, input, rd, cSR, cSRclosed, wk, wgInDels,
                   ins, del, insFile, delFile, pushed, taken, emitted, errRecv>>
    /\ UNCHANGED <<xvars, cvars, gvars, hvars>>

\* case <-cInDelsDone: close(cIns); close(cDel); n--
OrchInDelsDone ==
    /\ Running /\ orch.pc = "inDelsDone" /\ bar = "send"
    /\ bar' = "done"
    /\ cInsClosed' = TRUE
    /\ cDelClosed' = TRUE
    /\ crashed' = (cInsClosed \/ cDelClosed)
    /\ orch' = [orch EXCEPT !.pc = "maps", !.n = 2]
    /\ UNCHANGED <<nworkers, threshold, openOK, input, rd, cSR, cSRclosed, wk, wgInDels,
                   ins, del, insFile, delFile, pushed, taken, emitted, errRecv>>
    /\ UNCHANGED <<xvars, cvars, gvars, hvars>>

\* case insertionmap = <-cInsMap: n--
OrchRecvInsMap ==
    /\ Running /\ orch.pc = "maps" /\ ins.pc = "sendMap"
    /\ ins' = [ins EXCEPT !.pc = "done"]
    /\ orch' = [orch EXCEPT !.n = @ - 1, !.pc = IF orch.n - 1 > 0 THEN "maps" ELSE "writeIns"]
    /\ UNCHANGED <<nworkers, threshold, openOK, input, rd, cSR, cSRclosed, wk, wgInDels,
                   bar, cInsClosed, cDelClosed, del, insFile, delFile,
                   crashed, pushed, taken, emitted, errRecv>>
    /\ UNCHANGED <<xvars, cvars, gvars, hvars>>

\* case deletionmap = <-cDelMap: n--
OrchRecvDelMap ==
    /\ Running /\ orch.pc = "maps" /\ del.pc = "sendMap"
    /\ del' = [del EXCEPT !.pc = "done"]
    /\ orch' = [orch EXCEPT !.n = @ - 1, !.pc = IF orch.n - 1 > 0 THEN "maps" ELSE "writeIns"]
    /\ UNCHANGED <<nworkers, threshold, openOK, input, rd, cSR, cSRclosed, wk, wgInDels,
                   bar, cInsClosed, cDelClosed, ins, insFile, delFile,
                   crashed, pushed, taken, emitted, errRecv>>
    /\ UNCHANGED <<xvars, cvars, gvars, hvars>>

\* -------------------------------------------------- writeInsMap / writeDelMap
\* the (start, key) pairs of a map
Pairs(m) == {<<k, v>> : k \in DOMAIN m, v \in UNION {DOMAIN m[j] : j \in DOMAIN m}}
                \cap UNION {{<<k, v>> : v \in DOMAIN m[k]} : k \in DOMAIN m}

\* strconv.Itoa: the decimal digits of n as bytes, '-' first when negative
RECURSIVE Digits(_)
Digits(n) == IF n < 10 THEN <<48 + n>> ELSE Append(Digits(n \div 10), 48 + (n % 10))
Itoa(n) == IF n < 0 THEN <<Dash>> \o Digits(0 - n) ELSE Digits(n)

\* strings.Join: the elements with the separator between neighbours
RECURSIVE Join(_, _)
Join(elems, sep) ==
    IF elems = <<>> THEN <<>>
    ELSE IF Len(elems) = 1 THEN <<elems[1]>>
    ELSE <<elems[1], sep>> \o Join(Tail(elems), sep)

\* ReportRows with a fault: the threshold is ignored
ReportRowsUnfiltered(m, t) ==
    LET keep == Pairs(m)
        n == Cardinality(keep)
        orders == {s \in [1..n -> keep] :
                     /\ \A i, j \in 1..n : i # j => s[i] # s[j]
                     /\ \A i, j \in 1..n : i < j => s[i][1] <= s[j][1]}
    IN  {[i \in 1..n |-> [c1 |-> Itoa(s[i][1] + 1), c2 |-> s[i][2],
                          c3 |-> Join(m[s[i][1]][s[i][2]], "|")]] : s \in orders}

\* The rows the two loops can write: one per pair whose list is not shorter
\* than the threshold, starts ascending (sort.Ints), the keys of one start in
\* whatever order the map's range yields them.
ReportRows(m, t) ==
    LET keep == {p \in Pairs(m) : ~(Len(m[p[1]][p[2]]) < t)}
        n == Cardinality(keep)
        orders == {s \in [1..n -> keep] :
                     /\ \A i, j \in 1..n : i # j => s[i] # s[j]
                     /\ \A i, j \in 1..n : i < j => s[i][1] <= s[j][1]}
    IN  {[i \in 1..n |-> [c1 |-> Itoa(s[i][1] + 1), c2 |-> s[i][2],
                          c3 |-> Join(m[s[i][1]][s[i][2]], "|")]] : s \in orders}

\* One call of a writer.  fail = 0: os.Create fails; fail = 1: the header's
\* WriteString fails; fail = 1 + i: row i's WriteString fails; otherwise
\* every write succeeds and the function returns nil.
writeMap(header, rows, fail) ==
    IF fail = 0 THEN [st |-> "none", rows |-> <<>>]
    ELSE IF fail = 1 THEN [st |-> "partial", rows |-> <<>>]
    ELSE IF fail <= Len(rows) + 1
    THEN [st |-> "partial", rows |-> <<header>> \o SubSeq(rows, 1, fail - 2)]
    ELSE [st |-> "complete", rows |-> <<header>> \o rows]

InsHeader == [c1 |-> "ref_start", c2 |-> "insertion", c3 |-> "samples"]
DelHeader == [c1 |-> "ref_start", c2 |-> "length", c3 |-> "samples"]

\* err := writeInsMap(insOut, insertionmap, threshold); if err != nil { return err }
OrchWriteIns ==
    /\ Running /\ orch.pc = "writeIns"
    /\ \E rows \in ReportRows(ins.map, threshold) : \E fail \in 0..(Len(rows) + 2) :
          /\ insFile' = writeMap(InsHeader, rows, fail)
          /\ orch' = IF insFile'.st = "complete" THEN [orch EXCEPT !.pc = "writeDel"]
                     ELSE [orch EXCEPT !.pc = "returned", !.result = Err("writeInsMap", "sink", fail)]
    /\ UNCHANGED <<nworkers, threshold, openOK, input, rd, cSR, cSRclosed, wk, wgInDels,
                   bar, cInsClosed, cDelClosed, ins, del, delFile,
                   crashed, pushed, taken, emitted, errRecv>>
    /\ UNCHANGED <<xvars, cvars, gvars, hvars>>

\* err = writeDelMap(delOut, deletionmap, threshold); return err or nil
OrchWriteDel ==
    /\ Running /\ orch.pc = "writeDel"
    /\ \E rows \in ReportRows(del.map, threshold) : \E fail \in 0..(Len(rows) + 2) :
          /\ delFile' = writeMap(DelHeader, rows, fail)
          /\ orch' = IF delFile'.st = "complete"
                     THEN [orch EXCEPT !.pc = "returned", !.result = NilResult]
                     ELSE [orch EXCEPT !.pc = "returned", !.result = Err("writeDelMap", "sink", fail)]
    /\ UNCHANGED <<nworkers, threshold, openOK, input, rd, cSR, cSRclosed, wk, wgInDels,
                   bar, cInsClosed, cDelClosed, ins, del, insFile,
                   crashed, pushed, taken, emitted, errRecv>>
    /\ UNCHANGED <<xvars, cvars, gvars, hvars>>

Next ==
    \/ ReaderOpen
    \/ ReaderRead
    \/ ReaderPush
    \/ \E w \in 1..MaxWorkers : WorkerRecv(w)
    \/ \E w \in 1..MaxWorkers : WorkerExit(w)
    \/ \E w \in 1..MaxWorkers : WorkerSendIns(w)
    \/ \E w \in 1..MaxWorkers : WorkerSendDel(w)
    \/ \E w \in 1..MaxWorkers : WorkerPanic(w)
    \/ InsDrained
    \/ DelDrained
    \/ BarrierWait
    \/ OrchRecvErrReader
    \/ \E w \in 1..MaxWorkers : OrchRecvErrWorker(w)
    \/ OrchReadDone
    \/ OrchInDelsDone
    \/ OrchRecvInsMap
    \/ OrchRecvDelMap
    \/ OrchWriteIns
    \/ OrchWriteDel

\* ---------------------------------------------------------------- getOneLine
\* the loop over CIGAR (lines 85-99): newSeqArray grows by each extension
RECURSIVE getOneLineOps(_, _, _, _, _)
getOneLineOps(rec, i, qstart, rstart, newSeqArray) ==
    IF i > Len(rec.Cigar) THEN [panic |-> FALSE, seq |-> newSeqArray]
    ELSE LET r == getCigarOperationMap(rec.Cigar[i].op, qstart, rstart,
                                       rec.Cigar[i].len, rec.Seq)
         IN  IF r.panic THEN [panic |-> TRUE, seq |-> newSeqArray]
             ELSE getOneLineOps(rec, i + 1, r.q, r.r, newSeqArray \o r.ext)

\* getOneLine with a fault: nothing is appended after the operators
getOneLineNoRightPad(samLine, refLen) ==
    IF samLine.Pos < 0 THEN [status |-> "err", seq |-> <<>>]
    ELSE LET body == getOneLineOps(samLine, 1, 0, samLine.Pos,
                                   [i \in 1..samLine.Pos |-> Star])
         IN  IF body.panic THEN [status |-> "panic", seq |-> <<>>]
             ELSE IF refLen - Len(body.seq) < 0 THEN [status |-> "panic", seq |-> <<>>]
             ELSE [status |-> "ok", seq |-> body.seq]

\* rightpad := make([]byte, refLen-len(newSeqArray)) panics on a negative length
getOneLine(samLine, refLen) ==
    IF samLine.Pos < 0 THEN [status |-> "err", seq |-> <<>>]
    ELSE LET body == getOneLineOps(samLine, 1, 0, samLine.Pos,
                                   [i \in 1..samLine.Pos |-> Star])
         IN  IF body.panic THEN [status |-> "panic", seq |-> <<>>]
             ELSE IF refLen - Len(body.seq) < 0 THEN [status |-> "panic", seq |-> <<>>]
             ELSE [status |-> "ok",
                   seq |-> body.seq \o [i \in 1..(refLen - Len(body.seq)) |-> Star]]

\* the records the harness gives getOneLine; B is CigarBack, which the
\* interpreter's table lacks
ExOps == {Op(o, n) : o \in RecognizedOps \cup {"B"}, n \in {1, 2}}
ExSeqs == {<<>>, <<Nuc.A>>, <<Nuc.A, Nuc.C>>, <<Nuc.A, Nuc.C, Nuc.G>>}
ExRecords == {[kind |-> "rec", Name |-> "q", Flags |-> 0, Pos |-> p, Seq |-> sq, Cigar |-> cg] :
                 p \in -1..MaxPos, sq \in ExSeqs,
                 cg \in UNION {[1..n -> ExOps] : n \in 0..MaxOps}}

Idle == [status |-> "idle", seq |-> <<>>]
NoRec == [kind |-> "none"]

ExpandIdle == exRec = NoRec /\ exRefLen = 0 /\ exOut = Idle /\ exAgain = Idle

ExpandInit ==
    exRec \in ExRecords /\ exRefLen \in 0..MaxRefLen /\ exOut = Idle /\ exAgain = Idle

Expand ==
    /\ exOut = Idle /\ exRec # NoRec
    /\ exOut' = getOneLine(exRec, exRefLen)
    /\ UNCHANGED <<exRec, exRefLen, exAgain, pvars, cvars, gvars, hvars>>

\* a second call on the record, after the first has returned
ExpandAgain ==
    /\ exOut # Idle /\ exAgain = Idle
    /\ exAgain' = getOneLine(exRec, exRefLen)
    /\ UNCHANGED <<exRec, exRefLen, exOut, pvars, cvars, gvars, hvars>>

\* ------------------------------------------------------ the consensus resolver
\* getSetFromSlice: the distinct bytes of s, in the order the map's range
\* yields them; prio ranks the bytes for one run of the range.
RECURSIVE SetToSeq(_, _)
SetToSeq(S, prio) ==
    IF S = {} THEN <<>>
    ELSE LET x == CHOOSE y \in S : \A z \in S : prio[y] <= prio[z]
         IN  <<x>> \o SetToSeq(S \ {x}, prio)

getSetFromSlice(s, prio) == SetToSeq({s[i] : i \in 1..Len(s)}, prio)

RECURSIVE CountLetters(_, _)
CountLetters(ss, i) ==
    IF i > Len(ss) THEN 0
    ELSE (IF IsLetter(ss[i]) THEN 1 ELSE 0) + CountLetters(ss, i + 1)

\* for i, e := range ss { if i == 0 || e > m { m = e } }   (m starts at 0)
RECURSIVE MaxLoop(_, _, _)
MaxLoop(ss, i, m) ==
    IF i > Len(ss) THEN m
    ELSE MaxLoop(ss, i + 1, IF i = 1 \/ ss[i] > m THEN ss[i] ELSE m)

\* getNucFromSite with a fault: one letter is already ambiguous
getNucFromSiteAnyLetter(s, prio) ==
    LET ss == getSetFromSlice(s, prio)
        check == CountLetters(ss, 1)
    IN  IF check >= 1 THEN ChN ELSE MaxLoop(ss, 1, 0)

getNucFromSite(s, prio) ==
    LET ss == getSetFromSlice(s, prio)
        check == CountLetters(ss, 1)
    IN  IF check > 1 THEN ChN ELSE MaxLoop(ss, 1, 0)

\* block[0] of an empty block is out of range
checkAndGetFlattenedSeq(block, prio) ==
    IF Len(block) = 0 THEN [status |-> "panic", seq |-> <<>>]
    ELSE [status |-> "ok",
          seq |-> [j \in 1..Len(block[1]) |->
                     getNucFromSite([i \in 1..Len(block) |-> block[i][j]], prio)]]

SiteBytes == {Star, Dash, Nuc.A, Nuc.C}
BlockWidths == {1, 2}
\* getSeqFromBlock flattens only a block of more than one sequence
Blocks == UNION {[1..n -> [1..w -> SiteBytes]] : n \in 2..MaxBlock, w \in BlockWidths}
Priorities == {f \in [SiteBytes -> 1..Cardinality(SiteBytes)] :
                  \A a, b \in SiteBytes : a # b => f[a] # f[b]}

ConsensusIdle == cnBlock = <<>> /\ cnOut = Idle

ConsensusInit == cnBlock \in Blocks /\ cnOut = Idle

Flatten ==
    /\ cnOut = Idle /\ cnBlock # <<>>
    /\ \E prio \in Priorities : cnOut' = checkAndGetFlattenedSeq(cnBlock, prio)
    /\ UNCHANGED <<cnBlock, pvars, xvars, gvars, hvars>>

\* ------------------------------------------------------------ groupSamRecords
StreamItems(names) ==
    [i \in 1..Len(names) |->
        IF names[i] = "err" THEN [kind |-> "readErr", Name |-> "", id |-> i]
        ELSE [kind |-> "rec", Name |-> names[i], id |-> i]]

Streams == {StreamItems(names) : names \in UNION {[1..n -> {"a", "b", "err"}] : n \in 0..MaxStream}}

GroupIdle ==
    /\ gInput = <<>> /\ gEmitted = <<>> /\ gErrs = <<>> /\ gDone = FALSE
    /\ grp = [pc |-> "idle", pos |-> 0, samLineGroup |-> <<>>, first |-> TRUE, previous |-> ""]

GroupInit ==
    /\ gInput \in Streams /\ gEmitted = <<>> /\ gErrs = <<>> /\ gDone = FALSE
    /\ grp = [pc |-> "read", pos |-> 0, samLineGroup |-> <<>>, first |-> TRUE, previous |-> ""]

\* s.Read() and the branches that send nothing (lines 308-337)
GroupRead ==
    /\ grp.pc = "read"
    /\ IF grp.pos = Len(gInput)
       THEN grp' = [grp EXCEPT !.pc = "sendLast"]
       ELSE LET rec == gInput[grp.pos + 1] IN
            grp' = IF rec.kind = "readErr"
                   THEN [grp EXCEPT !.pc = "sendErr", !.pos = @ + 1]
                   ELSE IF grp.first
                   THEN [grp EXCEPT !.pos = @ + 1, !.samLineGroup = Append(@, rec),
                                    !.first = FALSE, !.previous = rec.Name]
                   ELSE IF rec.Name # grp.previous
                   THEN [grp EXCEPT !.pc = "sendBlock", !.pos = @ + 1]
                   ELSE [grp EXCEPT !.pos = @ + 1, !.samLineGroup = Append(@, rec),
                                    !.previous = rec.Name]
    /\ UNCHANGED <<gInput, gEmitted, gErrs, gDone, pvars, xvars, cvars, hvars>>

\* cerr <- err, then the loop goes on
GroupSendErr ==
    /\ grp.pc = "sendErr"
    /\ gErrs' = Append(gErrs, grp.pos)
    /\ grp' = [grp EXCEPT !.pc = "read"]
    /\ UNCHANGED <<gInput, gEmitted, gDone, pvars, xvars, cvars, hvars>>

\* GroupSendBlock with a fault: the new group starts empty, so the record
\* whose name differed is lost
GroupSendBlockDropping ==
    /\ grp.pc = "sendBlock"
    /\ gEmitted' = Append(gEmitted, grp.samLineGroup)
    /\ grp' = [grp EXCEPT !.pc = "read", !.samLineGroup = <<>>,
                          !.previous = gInput[grp.pos].Name]
    /\ UNCHANGED <<gInput, gErrs, gDone, pvars, xvars, cvars, hvars>>

\* chnl <- samLineGroup, then the new group starts with the record (329-333)
GroupSendBlock ==
    /\ grp.pc = "sendBlock"
    /\ gEmitted' = Append(gEmitted, grp.samLineGroup)
    /\ grp' = [grp EXCEPT !.pc = "read", !.samLineGroup = <<gInput[grp.pos]>>,
                          !.previous = gInput[grp.pos].Name]
    /\ UNCHANGED <<gInput, gErrs, gDone, pvars, xvars, cvars, hvars>>

\* after the loop: chnl <- samLineGroup (line 346)
GroupSendLast ==
    /\ grp.pc = "sendLast"
    /\ gEmitted' = Append(gEmitted, grp.samLineGroup)
    /\ grp' = [grp EXCEPT !.pc = "signal"]
    /\ UNCHANGED <<gInput, gErrs, gDone, pvars, xvars, cvars, hvars>>

\* cdone <- true (line 348)
GroupSignal ==
    /\ grp.pc = "signal"
    /\ gDone' = TRUE
    /\ grp' = [grp EXCEPT !.pc = "done"]
    /\ UNCHANGED <<gInput, gEmitted, gErrs, pvars, xvars, cvars, hvars>>

\* --------------------------------------------------------------- swapInGapsNs
\* first pass (lines 231-243): the columns holding a letter; both indexes
\* keep their zero value when there is none
LetterColumns(seq) == {i \in 0..(Len(seq) - 1) : IsLetter(seq[i + 1])}
firstLetterIndx(seq) ==
    IF LetterColumns(seq) = {} THEN 0
    ELSE CHOOSE i \in LetterColumns(seq) : \A j \in LetterColumns(seq) : i <= j
lastLetterIndx(seq) ==
    IF LetterColumns(seq) = {} THEN 0
    ELSE CHOOSE i \in LetterColumns(seq) : \A j \in LetterColumns(seq) : j <= i

\* swapInGapsNs with a fault: '*' between the letters becomes '-' as well
swapInGapsNsAllGaps(seq) ==
    [k \in 1..Len(seq) |->
        LET i == k - 1 IN
        IF seq[k] = Star /\ i # firstLetterIndx(seq) /\ i # lastLetterIndx(seq)
        THEN Dash ELSE seq[k]]

\* second pass (lines 245-261), column i of the code is element i + 1 here
swapInGapsNs(seq) ==
    [k \in 1..Len(seq) |->
        LET i == k - 1
            L == seq[k] IN
        IF i < firstLetterIndx(seq) /\ L = Star THEN Dash
        ELSE IF i > firstLetterIndx(seq) /\ i < lastLetterIndx(seq) /\ L = Star THEN ChN
        ELSE IF i > lastLetterIndx(seq) /\ L = Star THEN Dash
        ELSE L]

SwapSeqs == UNION {[1..n -> SiteBytes] : n \in 0..MaxSeqLen}

SwapIdle == swSeq = <<>> /\ swOut = Idle

SwapInit == swSeq \in SwapSeqs /\ swOut = Idle

Swap ==
    /\ swOut = Idle
    /\ swOut' = [status |-> "ok", seq |-> swapInGapsNs(swSeq)]
    /\ UNCHANGED <<swSeq, ivars, fvars, pvars, xvars, cvars, gvars>>

\* ------------------------------------------------- getIndels on one record
\* the worked example of the indel extraction: 5M 2I 3M 4D 1M at POS 10
RExample == [kind |-> "rec", Name |-> "q", Flags |-> 0, Pos |-> 10,
             Seq |-> <<Nuc.A, Nuc.C, Nuc.G, Nuc.A, Nuc.C, Nuc.G, Nuc.A, Nuc.C, Nuc.G,
                       Nuc.A, Nuc.C>>,
             Cigar |-> <<Op("M", 5), Op("I", 2), Op("M", 3), Op("D", 4), Op("M", 1)>>]

IndelRecords == ExRecords \cup {RExample, RIns, RDel, RNegStart, ROverrun}

IndelsIdle == inRec = NoRec /\ inOut = Idle

IndelsInit == inRec \in IndelRecords /\ inOut = Idle

\* one pass of the loop body of getIndels (lines 81-116)
Extract ==
    /\ inOut = Idle /\ inRec # NoRec
    /\ inOut' = [status |-> "ok", seq |-> getIndels(inRec, 1)]
    /\ UNCHANGED <<inRec, svars, fvars, pvars, xvars, cvars, gvars>>

\* ------------------------------------ one aggregator and its writer alone
\* what a worker can send: two sites, two keys of each kind, two query names
FoldKeys(kind) == IF kind = "I" THEN {<<Nuc.A>>, <<Nuc.A, Nuc.C>>} ELSE {1, 2}
FoldOccs(kind) == {[kind |-> kind, idx |-> 0, query |-> q, start |-> st, key |-> k] :
                      q \in {"q1", "q2"}, st \in {0, 9}, k \in FoldKeys(kind)}

FoldIdle ==
    /\ foKind = "-" /\ foOccs = <<>> /\ foPos = 0 /\ foMap = EmptyMap /\ foT = 0
    /\ foFile = NoFile

\* insMap := make(...) / delMap := make(...) (lines 124, 158)
FoldInit ==
    /\ foKind \in {"I", "D"}
    /\ foOccs \in UNION {[1..n -> FoldOccs(foKind)] : n \in 0..MaxOccs}
    /\ foPos = 0 /\ foMap = EmptyMap
    /\ foT \in 0..MaxThreshold
    /\ foFile = NoFile

\* one pass of for ins := range(cIns) / for del := range(cDel)
Fold ==
    /\ foKind # "-" /\ foPos < Len(foOccs)
    /\ foMap' = populateMap(foMap, foOccs[foPos + 1])
    /\ foPos' = foPos + 1
    /\ UNCHANGED <<foKind, foOccs, foT, foFile, svars, ivars, pvars, xvars, cvars, gvars>>

\* the queue is closed and drained, the map is handed over and written
Write ==
    /\ foKind # "-" /\ foPos = Len(foOccs) /\ foFile = NoFile
    /\ \E rows \in ReportRows(foMap, foT) : \E fail \in 0..(Len(rows) + 2) :
          foFile' = writeMap(IF foKind = "I" THEN InsHeader ELSE DelHeader, rows, fail)
    /\ UNCHANGED <<foKind, foOccs, foPos, foMap, foT, svars, ivars, pvars, xvars, cvars, gvars>>

FunctionsIdle == SwapIdle /\ IndelsIdle /\ FoldIdle

\* ------------------------------------------------------------ specifications
PipelineIdle ==
    /\ nworkers = 0 /\ threshold = 0 /\ openOK = FALSE /\ input = <<>>
    /\ rd = [pc |-> "idle", pos |-> 0, what |-> "-"]
    /\ cSR = <<>> /\ cSRclosed = FALSE /\ wk = <<>> /\ wgInDels = 0 /\ bar = "idle"
    /\ cInsClosed = FALSE /\ cDelClosed = FALSE
    /\ ins = [pc |-> "idle", map |-> EmptyMap] /\ del = [pc |-> "idle", map |-> EmptyMap]
    /\ orch = [pc |-> "idle", n |-> 0, result |-> NoResult]
    /\ insFile = NoFile /\ delFile = NoFile /\ crashed = FALSE
    /\ pushed = <<>> /\ taken = <<>> /\ emitted = {} /\ errRecv = <<>>

\* the aggregation pipeline, every interleaving
Init == PipelineInit /\ ExpandIdle /\ ConsensusIdle /\ GroupIdle /\ FunctionsIdle

Spec == Init /\ [][Next]_vars

\* getOneLine on every record and reference length within the bounds
InitExpand == PipelineIdle /\ ExpandInit /\ ConsensusIdle /\ GroupIdle /\ FunctionsIdle

ExpandNext == Expand \/ ExpandAgain

SpecExpand == InitExpand /\ [][ExpandNext]_vars

\* checkAndGetFlattenedSeq on every block within the bounds
InitConsensus == PipelineIdle /\ ExpandIdle /\ ConsensusInit /\ GroupIdle /\ FunctionsIdle

SpecConsensus == InitConsensus /\ [][Flatten]_vars

GroupNext == GroupRead \/ GroupSendErr \/ GroupSendBlock \/ GroupSendLast \/ GroupSignal

\* groupSamRecords on every stream within the bounds
InitGroup == PipelineIdle /\ ExpandIdle /\ ConsensusIdle /\ GroupInit /\ FunctionsIdle

SpecGroup == InitGroup /\ [][GroupNext]_vars

\* swapInGapsNs on every sequence within the bounds
InitSwap ==
    PipelineIdle /\ ExpandIdle /\ ConsensusIdle /\ GroupIdle /\ SwapInit /\ IndelsIdle /\ FoldIdle

SpecSwap == InitSwap /\ [][Swap]_vars

\* getIndels on every record within the bounds
InitIndels ==
    PipelineIdle /\ ExpandIdle /\ ConsensusIdle /\ GroupIdle /\ SwapIdle /\ IndelsInit /\ FoldIdle

SpecIndels == InitIndels /\ [][Extract]_vars

FoldNext == Fold \/ Write

\* one aggregator and its writer on every occurrence sequence within the bounds
InitFold ==
    PipelineIdle /\ ExpandIdle /\ ConsensusIdle /\ GroupIdle /\ SwapIdle /\ IndelsIdle /\ FoldInit

SpecFold == InitFold /\ [][FoldNext]_vars

\* ===================================================================== claims
FlagBit(flags, v) == (flags \div v) % 2 = 1

IsRec(i) == input[i].kind = "rec"
Flagged(i) == IsRec(i) /\ FlagBit(input[i].Flags, 4)
Mapped(i) == IsRec(i) /\ ~FlagBit(input[i].Flags, 4)

AllExited == \A w \in Workers : wk[w].pc = "exited"
PendingSend(k) == \E w \in Workers : wk[w].pc = "emit" /\ Head(wk[w].todo).kind = k

\* the Report Writer has been called (writeInsMap is the first call)
WriterInvoked ==
    \/ orch.pc = "writeDel"
    \/ insFile # NoFile \/ delFile # NoFile
    \/ orch.pc = "returned" /\ (orch.result.kind = "nil"
                                 \/ orch.result.stage \in {"writeInsMap", "writeDelMap"})

\* C1: the record queue is closed only after the reader has signalled
\* completion; both occurrence queues are closed only after every worker has
\* exited and the barrier has signalled; an aggregator delivers its final Map
\* only after its queue is closed and nothing is left to drain; the Report
\* Writer is invoked only after both final Maps have been received.
C1_CompletionOrder ==
    /\ cSRclosed => rd.pc = "done"
    /\ (cInsClosed \/ cDelClosed) => (AllExited /\ wgInDels = 0 /\ bar = "done" /\ cSR = <<>>)
    /\ ins.pc \in {"sendMap", "done"} => (cInsClosed /\ ~PendingSend("I"))
    /\ del.pc \in {"sendMap", "done"} => (cDelClosed /\ ~PendingSend("D"))
    /\ (WriterInvoked \/ orch.pc = "writeIns") => (ins.pc = "done" /\ del.pc = "done")

\* C1's case: a run with occurrences of both kinds has reached the writer
C1_Witness ==
    /\ orch.pc = "writeDel" /\ nworkers = 2
    /\ ins.map # EmptyMap /\ del.map # EmptyMap

\* ---- C2
NoErrorReported ==
    /\ errRecv = <<>> /\ rd.pc # "sendErr"
    /\ \A w \in Workers : wk[w].pc # "sendErr"

\* nothing more can happen: every task is finished or blocked for good
Stuck == ~ENABLED Next

Finished ==
    /\ rd.pc = "done" /\ AllExited /\ bar = "done"
    /\ ins.pc = "done" /\ del.pc = "done"
    /\ orch.pc = "returned" /\ WriterInvoked

\* C2: in a run in which no stage reports an error, the pipeline does not
\* stop before the reader, every worker and both aggregators have finished
\* and the orchestrator has received both Maps and invoked the Report Writer.
C2_ErrorFreeTermination == (NoErrorReported /\ Stuck) => Finished

\* no error kind applies to the input: it opens, every line parses, every
\* record the reader passes on starts at 0 or later and getIndels walks it
\* without a panic
WellFormedInput ==
    /\ openOK
    /\ \A i \in 1..Len(input) :
          /\ IsRec(i)
          /\ Mapped(i) => \A j \in 1..Len(getIndels(input[i], i)) :
                             getIndels(input[i], i)[j].kind \in {"I", "D"}

\* what does hold: on such an input the pipeline never stops early
TerminationOnWellFormedInput == (WellFormedInput /\ Stuck) => Finished

\* ---- C3
RECURSIVE SumOver(_, _)
SumOver(S, f) ==
    IF S = {} THEN 0
    ELSE LET x == CHOOSE y \in S : TRUE IN f[x] + SumOver(S \ {x}, f)

\* the names stored in a map, summed over all keys
MapTotal(m) == SumOver(Pairs(m), [p \in Pairs(m) |-> Len(m[p[1]][p[2]])])

OpCount(rec, k) == Cardinality({j \in 1..Len(rec.Cigar) : rec.Cigar[j].op = k})

\* the operators of kind k in the mapped records of the input
MappedOps(k) ==
    LET idx == {i \in 1..Len(input) : Mapped(i)}
    IN  SumOver(idx, [i \in idx |-> OpCount(input[i], k)])

Receives(i) == Cardinality({j \in 1..Len(taken) : taken[j][1] = i})

BothMapsReceived == ins.pc = "done" /\ del.pc = "done"

\* C3: no record is received from the record queue twice, and when both
\* final Maps have been received every pushed record has been received by
\* exactly one worker, the Insertion Map holds as many names as the mapped
\* records have Insertion operators and the Deletion Map as many as they
\* have Deletion operators, whatever the worker count.
C3_WorkerCountIndependence ==
    /\ \A i \in 1..Len(input) : Receives(i) <= 1
    /\ BothMapsReceived =>
          /\ \A i \in 1..Len(input) : Receives(i) = IF Mapped(i) THEN 1 ELSE 0
          /\ MapTotal(ins.map) = MappedOps("I")
          /\ MapTotal(del.map) = MappedOps("D")

\* C3's case: two workers have shared a run whose Maps hold both kinds
C3_Witness ==
    /\ BothMapsReceived /\ nworkers = 2
    /\ MapTotal(ins.map) >= 1 /\ MapTotal(del.map) >= 1
    /\ \E j, k \in 1..Len(taken) : taken[j][2] # taken[k][2]

\* ---- C4
ErrPending == rd.pc = "sendErr" \/ \E w \in Workers : wk[w].pc = "sendErr"

\* C4: an error a stage is sending on the error channel is still going to be
\* received: the process is alive and the orchestrator is in one of its
\* three selects; the error received is the orchestrator's result and the
\* Report Writer is never invoked.
C4_FirstErrorFatal ==
    /\ ErrPending => (~crashed /\ Selecting)
    /\ errRecv # <<>> => (orch.pc = "returned" /\ orch.result = errRecv[1] /\ ~WriterInvoked)
    /\ ErrPending => ~WriterInvoked

\* ---- C5
\* C5: when the aggregation operation has returned an error, neither report
\* has been completely written.
C5_AbortBeforeFinalized ==
    (orch.pc = "returned" /\ orch.result.kind = "error")
        => (insFile.st # "complete" /\ delFile.st # "complete")

\* ---- C6
\* C6: no occurrence is ever emitted for a record whose start is negative.
C6_NegativeStartAborted ==
    \A e \in emitted : input[e[1]].Pos >= 0

\* ---- C7
\* the positions among the first n of the input whose record is mapped
RECURSIVE MappedUpTo(_)
MappedUpTo(n) ==
    IF n = 0 THEN <<>>
    ELSE MappedUpTo(n - 1) \o (IF Mapped(n) THEN <<n>> ELSE <<>>)

\* the lines the reader has dealt with
Handled == IF rd.pc = "push" THEN rd.pos - 1 ELSE rd.pos

\* C7: what has been pushed on the record queue is, in input order and once
\* each, the records without flag bit 4 among the lines the reader has dealt
\* with; a record with the bit set is never received by a worker, never
\* contributes an occurrence and is never the subject of an error.
C7_FlagFiltering ==
    /\ pushed = MappedUpTo(Handled)
    /\ \A j \in 1..Len(cSR) : ~Flagged(cSR[j].idx)
    /\ \A j \in 1..Len(taken) : ~Flagged(taken[j][1])
    /\ \A e \in emitted : ~Flagged(e[1])
    /\ \A w \in Workers : wk[w].idx # 0 => ~Flagged(wk[w].idx)
    /\ \A j \in 1..Len(errRecv) : errRecv[j].stage = "worker" => ~Flagged(errRecv[j].idx)

\* C7's case: the reader has finished an input holding a flagged record
\* with a negative start and an Insertion, and a mapped record after it
C7_Witness ==
    /\ rd.pc = "done" /\ pushed # <<>>
    /\ \E i \in 1..Len(input) : Flagged(i) /\ i < pushed[Len(pushed)]

\* ---- C8
QueryConsumed(cigar) ==
    LET idx == {j \in 1..Len(cigar) : cigar[j].op \in {"M", "=", "X", "I", "S"}}
    IN  SumOver(idx, [j \in idx |-> cigar[j].len])

\* a record with a start of 0 or later whose operators are all of the nine
\* kinds and consume no more of the query than it holds
Expandable(rec) ==
    /\ rec.Pos >= 0
    /\ \A j \in 1..Len(rec.Cigar) : rec.Cigar[j].op \in RecognizedOps
    /\ QueryConsumed(rec.Cigar) <= Len(rec.Seq)

\* C8: for such a record and any reference length L, getOneLine returns a
\* sequence of length exactly L.
C8_ExpandedLength ==
    (exOut # Idle /\ Expandable(exRec))
        => (exOut.status = "ok" /\ Len(exOut.seq) = exRefLen)

\* ---- C9
ColumnSet(block, j) == {block[i][j] : i \in 1..Len(block)}
AsciiLetters == (65..90) \cup (97..122)

\* C9: for a block of two or more sequences of one length the resolver's
\* output has that length and holds, at each column, N when the column has
\* more than one distinct letter and the column's greatest byte otherwise.
C9_ConsensusPolicy ==
    (cnOut # Idle /\ Len(cnBlock) >= 2) =>
        /\ cnOut.status = "ok"
        /\ Len(cnOut.seq) = Len(cnBlock[1])
        /\ \A j \in 1..Len(cnBlock[1]) :
              LET col == ColumnSet(cnBlock, j) IN
              cnOut.seq[j] = IF Cardinality(col \cap AsciiLetters) > 1 THEN 78
                             ELSE CHOOSE m \in col : \A b \in col : b <= m

\* C9's case: a resolved block with two letters in one column and only
\* '*' and '-' in the other
C9_Witness ==
    /\ cnOut # Idle /\ Len(cnBlock) >= 2 /\ Len(cnBlock[1]) = 2
    /\ ColumnSet(cnBlock, 1) = {65, 67} /\ cnOut.seq[1] = 78
    /\ ColumnSet(cnBlock, 2) = {42, 45} /\ cnOut.seq[2] = 45

\* ---- C10
\* C10: every block groupSamRecords has emitted is non-empty and its records
\* share one query name.
C10_BlockInvariant ==
    \A k \in 1..Len(gEmitted) :
        /\ gEmitted[k] # <<>>
        /\ \A i, j \in 1..Len(gEmitted[k]) : gEmitted[k][i].Name = gEmitted[k][j].Name

\* ---- C11
RECURSIVE Concat(_)
Concat(blocks) == IF blocks = <<>> THEN <<>> ELSE Head(blocks) \o Concat(Tail(blocks))

IsRecord(x) == x.kind = "rec"
\* the records s.Read() has returned so far, in order
RecordsRead == SelectSeq(SubSeq(gInput, 1, grp.pos), IsRecord)
\* the record read last, while it waits for the send of the block before it
Held == IF grp.pc = "sendBlock" THEN <<gInput[grp.pos]>> ELSE <<>>
\* the places in a record sequence where the name differs from the previous one
NameChanges(recs) == {i \in 2..Len(recs) : recs[i].Name # recs[i - 1].Name}
AtStreamEnd == grp.pc \in {"signal", "done"}

\* C11: groupSamRecords has emitted one block per name change among the
\* records read (the block before the record being held is still to come)
\* and one more once the stream has ended; the emitted blocks, the block in
\* progress and the held record concatenate to the records read; consecutive
\* emitted blocks differ in name; and the completion signal is sent only
\* when the final block is out and the blocks concatenate to all records.
C11_PartitionerSequencing ==
    grp.pc # "idle" =>
        /\ Concat(gEmitted) \o (IF AtStreamEnd THEN <<>> ELSE grp.samLineGroup) \o Held
              = RecordsRead
        /\ Len(gEmitted) = Cardinality(NameChanges(RecordsRead)) - Len(Held)
                             + (IF AtStreamEnd THEN 1 ELSE 0)
        /\ \A k \in 1..(Len(gEmitted) - 1) :
              gEmitted[k][Len(gEmitted[k])].Name # gEmitted[k + 1][1].Name
        /\ gDone => /\ grp.pc = "done"
                    /\ Concat(gEmitted) = SelectSeq(gInput, IsRecord)

\* C11's case: a finished run over a stream with a name change and a failed
\* read, which emitted two blocks
C11_Witness ==
    /\ gDone /\ Len(gEmitted) = 2 /\ gErrs # <<>>
    /\ Len(gEmitted[1]) = 2 \/ Len(gEmitted[2]) = 2

\* ---- C12
Swapped == swOut # Idle
HasLetter(seq) == \E k \in 1..Len(seq) : seq[k] \in AsciiLetters
\* the columns (from 0) of the first and the last letter of a sequence
FirstLetter(seq) == CHOOSE f \in 0..(Len(seq) - 1) :
    seq[f + 1] \in AsciiLetters /\ \A j \in 0..(f - 1) : seq[j + 1] \notin AsciiLetters
LastLetter(seq) == CHOOSE l \in 0..(Len(seq) - 1) :
    seq[l + 1] \in AsciiLetters /\ \A j \in (l + 1)..(Len(seq) - 1) : seq[j + 1] \notin AsciiLetters

\* C12: on a sequence with at least one letter swapInGapsNs keeps the
\* length, turns each '*' before the first or after the last letter into
\* '-' and each '*' strictly between them into 'N', leaves every other byte
\* as it was, and so leaves no '*'.
C12_BoundarySubstitution ==
    (Swapped /\ HasLetter(swSeq)) =>
        LET f == FirstLetter(swSeq)
            l == LastLetter(swSeq) IN
        /\ swOut.status = "ok"
        /\ Len(swOut.seq) = Len(swSeq)
        /\ \A i \in 0..(Len(swSeq) - 1) :
              swOut.seq[i + 1] = IF swSeq[i + 1] # 42 THEN swSeq[i + 1]
                                 ELSE IF i < f \/ i > l THEN 45
                                 ELSE 78
        /\ \A k \in 1..Len(swOut.seq) : swOut.seq[k] # 42

\* C12's case: '*' before, between and after the letters of one sequence
C12_Witness ==
    /\ Swapped /\ swSeq \in {<<42, 65, 42, 67>>, <<65, 42, 67, 42>>}
    /\ 45 \in {swOut.seq[k] : k \in 1..Len(swOut.seq)}
    /\ 78 \in {swOut.seq[k] : k \in 1..Len(swOut.seq)}

\* ---- C13
\* C13: on a sequence without any letter swapInGapsNs turns every '*',
\* the one at column 0 included, into '-', and leaves no '*'.
C13_NoLetterAllExternal ==
    (Swapped /\ ~HasLetter(swSeq)) =>
        /\ Len(swOut.seq) = Len(swSeq)
        /\ \A k \in 1..Len(swSeq) :
              swOut.seq[k] = IF swSeq[k] = 42 THEN 45 ELSE swSeq[k]

\* ---- C14
Extracted == inOut # Idle
RefConsuming == {"M", "=", "X", "D", "N"}
QueryConsuming == {"M", "=", "X", "I", "S"}
\* the lengths of the operators before operator i that are of a kind in K
LenBefore(cigar, i, K) ==
    SumOver({j \in 1..(i - 1) : cigar[j].op \in K}, [j \in 1..Len(cigar) |-> cigar[j].len])
\* the I and D operators among the first n, as their places in the CIGAR
IndelOps(cigar, n) == {i \in 1..n : cigar[i].op \in {"I", "D"}}
\* the k-th smallest element of a set of numbers
Nth(S, k) == CHOOSE i \in S : Cardinality({j \in S : j < i}) = k - 1
Occurrences(evs) == SelectSeq(evs, LAMBDA e : e.kind \in {"I", "D"})
\* every operator is of a known kind and none overruns the query
WellFormed(rec) ==
    \A i \in 1..Len(rec.Cigar) :
        /\ rec.Cigar[i].op \in RecognizedOps
        /\ rec.Cigar[i].op \in {"M", "=", "X", "I"} =>
              LenBefore(rec.Cigar, i, QueryConsuming) + rec.Cigar[i].len <= Len(rec.Seq)
\* occurrence k of the call is the one of the k-th I or D operator
OccurrenceOf(rec, occ, i) ==
    /\ occ.kind = rec.Cigar[i].op
    /\ occ.query = rec.Name
    /\ occ.start = rec.Pos + LenBefore(rec.Cigar, i, RefConsuming)
    /\ occ.key = IF rec.Cigar[i].op = "D" THEN rec.Cigar[i].len
                 ELSE LET q == LenBefore(rec.Cigar, i, QueryConsuming) IN
                      SubSeq(rec.Seq, q + 1, q + rec.Cigar[i].len)

\* C14: for a mapped record the occurrences getIndels emits are, in CIGAR
\* order, one per I operator and one per D operator and nothing else; each
\* starts at POS plus the lengths of the preceding M, =, X, D, N operators;
\* an insertion carries the query slice of its length at the query cursor
\* (the lengths of the preceding M, =, X, I, S operators), a deletion its
\* length.  When every operator is recognized and within the query all I
\* and D operators have their occurrence.
C14_IndelCoordinates ==
    (Extracted /\ inRec.Pos >= 0) =>
        LET occs == Occurrences(inOut.seq)
            all == IndelOps(inRec.Cigar, Len(inRec.Cigar)) IN
        /\ Len(occs) <= Cardinality(all)
        /\ \A k \in 1..Len(occs) : OccurrenceOf(inRec, occs[k], Nth(all, k))
        /\ WellFormed(inRec) => /\ Len(occs) = Cardinality(all)
                                /\ Len(inOut.seq) = Len(occs)

\* C14's case: the worked example, an insertion at 15 and a deletion at 18
\* of length 4
C14_Witness ==
    /\ Extracted /\ inRec = RExample
    /\ Len(inOut.seq) = 2
    /\ inOut.seq[1].kind = "I" /\ inOut.seq[1].start = 15
    /\ inOut.seq[1].key = <<Nuc.G, Nuc.A>>
    /\ inOut.seq[2].kind = "D" /\ inOut.seq[2].start = 18 /\ inOut.seq[2].key = 4

\* ---- C17
\* an operator of a kind outside the nine, or a query-consuming operator
\* whose length takes the query cursor past the end of the query
Malformed(rec) ==
    \E i \in 1..Len(rec.Cigar) :
        \/ rec.Cigar[i].op \notin RecognizedOps
        \/ /\ rec.Cigar[i].op \in QueryConsuming
           /\ LenBefore(rec.Cigar, i, QueryConsuming) + rec.Cigar[i].len > Len(rec.Seq)

\* C17: getOneLine on a record with an unrecognized operator, or with an
\* operator that overruns the query, returns an error: it neither panics
\* nor returns a sequence.
C17_MalformedOperatorsFail ==
    (exOut # Idle /\ Malformed(exRec)) => exOut.status = "err"

\* ---- C15
Consumed == SubSeq(foOccs, 1, foPos)
\* the query names of the consumed occurrences with one key, in arrival order
ArrivedNames(k, v) ==
    LET sel == SelectSeq(Consumed, LAMBDA o : o.start = k /\ o.key = v)
    IN  [i \in 1..Len(sel) |-> sel[i].query]
IsPrefix(a, b) == Len(a) <= Len(b) /\ SubSeq(b, 1, Len(a)) = a

C15_Lists ==
    foKind # "-" =>
        /\ Pairs(foMap) = {<<Consumed[i].start, Consumed[i].key>> : i \in 1..foPos}
        /\ \A p \in Pairs(foMap) : foMap[p[1]][p[2]] = ArrivedNames(p[1], p[2])

C15_AppendOnly ==
    \A p \in Pairs(foMap) :
        /\ p \in Pairs(foMap')
        /\ IsPrefix(foMap[p[1]][p[2]], foMap'[p[1]][p[2]])

\* C15: after any number of occurrences consumed, the aggregator's map has
\* exactly the keys of the consumed occurrences and each key's list is the
\* query names of the consumed occurrences with that key in arrival order,
\* duplicates kept; and every step leaves each stored list a prefix of what
\* it becomes.
C15_AggregatorFold == []C15_Lists /\ [][C15_AppendOnly]_vars

\* C15's case: one query consumed twice at one site among three occurrences
C15_Witness ==
    /\ foPos = 3 /\ Cardinality(Pairs(foMap)) = 2
    /\ \E p \in Pairs(foMap) : foMap[p[1]][p[2]] = <<"q1", "q1">>

\* ---- C16
\* strconv.Atoi on the digits of a number that is not negative
RECURSIVE Atoi(_)
Atoi(ds) == IF ds = <<>> THEN 0 ELSE 10 * Atoi(SubSeq(ds, 1, Len(ds) - 1)) + (ds[Len(ds)] - 48)
Kept == {p \in Pairs(foMap) : Len(foMap[p[1]][p[2]]) >= foT}
\* the names of a list with '|' between them
Piped(names) == [i \in 1..(2 * Len(names) - 1) |-> IF i % 2 = 1 THEN names[(i + 1) \div 2] ELSE "|"]
\* the (primaryKey, secondaryKey) pair a row stands for
PairOf(row) == <<Atoi(row.c1) - 1, row.c2>>

\* C16: a report written to the end is the header followed by exactly one
\* row for each pair whose list is at least as long as the threshold and
\* none for any other pair; a row's first column is the decimal primaryKey
\* + 1, its sample column the stored names joined with '|'; the rows are in
\* ascending order of primaryKey.
C16_ReportRows ==
    foFile.st = "complete" =>
        LET rows == Tail(foFile.rows) IN
        /\ Head(foFile.rows) = (IF foKind = "I" THEN InsHeader ELSE DelHeader)
        /\ Len(rows) = Cardinality(Kept)
        /\ {PairOf(rows[i]) : i \in 1..Len(rows)} = Kept
        /\ \A i \in 1..Len(rows) :
              LET p == PairOf(rows[i]) IN
              /\ rows[i].c1 = Itoa(p[1] + 1)
              /\ rows[i].c3 = Piped(foMap[p[1]][p[2]])
        /\ \A i, j \in 1..Len(rows) : i < j => PairOf(rows[i])[1] <= PairOf(rows[j])[1]

\* C16's case: threshold 2 and a map with a list of two names at site 9
\* and a list of one; the report has the header and the one row, for 10
C16_Witness ==
    /\ foFile.st = "complete" /\ Len(foFile.rows) = 2 /\ foT = 2
    /\ Kept # Pairs(foMap)
    /\ foFile.rows[2].c1 = <<49, 48>>
    /\ foFile.rows[2].c3 \in {<<"q1", "|", "q2">>, <<"q2", "|", "q1">>}

\* ---- C18
\* one M operator that spans the whole query, placed within refLen
MatchOnly ==
    /\ exRec # NoRec /\ exRec.Pos >= 0
    /\ Len(exRec.Cigar) = 1 /\ exRec.Cigar[1] = Op("M", Len(exRec.Seq))
    /\ exRec.Pos + Len(exRec.Seq) <= exRefLen

QueueFull == Len(cSR) >= nworkers
C19_Bounded == Len(cSR) <= nworkers

C19_Step ==
    \* with the queue full a reader at its push stays there: no push is
    \* completed, nothing further is read, no completion is signalled
    /\ (rd.pc = "push" /\ QueueFull) => rd' = rd
    \* a push that completes found room and adds one record
    /\ (rd.pc = "push" /\ rd' # rd) => (~QueueFull /\ Len(cSR') = Len(cSR) + 1
                                          /\ rd'.pc = "read")
    \* room is made only by a worker pulling the record at the head
    /\ Len(cSR') < Len(cSR) =>
          \E w \in Workers : /\ taken' = Append(taken, <<Head(cSR).idx, w>>)
                              /\ cSR' = Tail(cSR)

\* C19: the record queue never holds more records than its capacity
\* (runtime.NumCPU()); while it is full the reader stays at its push, so it
\* neither reads on nor signals completion; and the queue gets room only by
\* a worker pulling a record, after which the push can complete.
C19_Backpressure == []C19_Bounded /\ [][C19_Step]_vars

\* C19's case: the reader holds a record it cannot push, the queue is full
C19_Witness == rd.pc = "push" /\ QueueFull /\ cSR # <<>> /\ ~crashed

\* ---- C20
\* Indels has returned an error it received from cErr
ErrReturned ==
    /\ orch.pc = "returned" /\ orch.result.kind = "error"
    /\ orch.result.stage \in {"reader", "worker"}

C20_State ==
    ErrReturned =>
        \* the occurrence queues are open, both aggregators are in their
        \* range loops with their maps undelivered, the barrier's signal
        \* has not been taken
        /\ ~cInsClosed /\ ~cDelClosed
        /\ ins.pc = "recv" /\ del.pc = "recv"
        /\ bar # "done"

C20_Step ==
    ErrReturned =>
        \* Indels does nothing more: it closes no queue and stops no stage
        /\ orch' = orch
        /\ cSRclosed' = cSRclosed /\ cInsClosed' = cInsClosed /\ cDelClosed' = cDelClosed
        \* a stage at a send on cErr or on cInDelsDone stays there
        /\ rd.pc = "sendErr" => rd' = rd
        /\ \A w \in Workers : wk[w].pc = "sendErr" => wk'[w] = wk[w]
        /\ bar = "send" => bar' = bar
        \* and no worker leaves its loop unless cSR was closed before
        /\ \A w \in Workers : (wk'[w].pc = "exited" /\ wk[w].pc # "exited") => cSRclosed

\* C20: once Indels has returned an error received from cErr it closes no
\* queue and stops no stage; the occurrence queues are never closed, neither
\* aggregator leaves its range loop or delivers its map, and a stage that
\* sends a second error or the barrier's signal stays at that send.
C20_NoCancellation == []C20_State /\ [][C20_Step]_vars

\* C20's case: Indels has returned an error, nothing can move any more,
\* both aggregators sit in their loops and the reader holds a second error
C20_Witness ==
    /\ ErrReturned /\ ~crashed /\ Stuck
    /\ ins.pc = "recv" /\ del.pc = "recv"
    /\ rd.pc = "sendErr"

\* ---- C21
\* a worker is at a send on the occurrence queue of kind k
SendingOn(k) == \E w \in Workers : wk[w].pc = "emit" /\ Head(wk[w].todo).kind = k

C21_State ==
    \* nobody is at, or on the way to, a send on the closed record queue
    /\ cSRclosed => (rd.pc = "done" /\ orch.pc # "readDone")
    \* no worker is at a send on a closed occurrence queue, and the close
    \* is not going to be repeated
    /\ cInsClosed => (~SendingOn("I") /\ AllExited /\ orch.pc # "inDelsDone")
    /\ cDelClosed => (~SendingOn("D") /\ AllExited /\ orch.pc # "inDelsDone")

C21_Step ==
    \* no step sends on a closed queue: the buffer of a closed record queue
    \* never grows, an aggregator takes nothing from a closed queue
    /\ cSRclosed => Len(cSR') <= Len(cSR)
    /\ cInsClosed => ins'.map = ins.map
    /\ cDelClosed => del'.map = del.map
    \* the process dies only of a worker's panic, never of a send on a
    \* closed queue or of a second close
    /\ (crashed' /\ ~crashed) => \E w \in Workers : wk[w].pc = "panic"

\* C21: in every interleaving no task sends on the record queue after its
\* close, no worker sends on an occurrence queue after its close, and no
\* queue is closed twice, also when a worker has reported an error for a
\* negative POS and gone on with the record.
C21_NoSendOnClosed == []C21_State /\ [][C21_Step]_vars

\* C21's case: the record queue is closed, a worker's error for a negative
\* POS has been received, and that worker has gone on to send the record's
\* insertion
C21_Witness ==
    /\ cSRclosed /\ ErrReturned /\ orch.result.stage = "worker"
    /\ <<orch.result.idx, "I">> \in emitted
    /\ ~crashed

====
